---- MODULE Spec2Model ----
(***************************************************************************)
(* A model of webhookd.py: the webhook-to-chat relay.                      *)
(*                                                                         *)
(*   - the Formatter (escape_text, format_message), as operators on        *)
(*     strings modelled as sequences of one-character strings;             *)
(*   - the two JSON files (message_queue.json, message_sent.json) and the  *)
(*     operations on them (save_to_file, remove_from_queue);               *)
(*   - the request handlers and the process_queue worker thread, as a      *)
(*     state machine that interleaves them under queue_lock.               *)
(*                                                                         *)
(* Three specifications share the variables:                               *)
(*   Spec      the running service: handlers and the worker;               *)
(*   SpecFmt   format_message applied to bounded event payloads;           *)
(*   SpecQueue save_to_file / remove_from_queue applied to bounded queue   *)
(*             contents by a single thread.                                *)
(***************************************************************************)
EXTENDS Integers, Sequences, FiniteSets, TLC

(***************************************************************************)
(* Bounds of the model.                                                    *)
(***************************************************************************)
\* longest string value of an event field
MaxStrLen == 2
\* number of concurrent request-handling threads
NumHandlers == 2
\* number of requests the server accepts in one behaviour
MaxRequests == 2
\* RETRY_CONFIG["send_retry_num"], a configuration value
send_retry_num == 2
\* the pass counter saturates here
MaxPass == 2
\* longest queue content SpecQueue starts from
MaxQueueLen == 3

(***************************************************************************)
(* Strings: a Python str is a sequence of one-character strings.           *)
(***************************************************************************)
Chars == {"a", "_"}

StrsUpTo(n) == UNION {[1..k -> Chars] : k \in 0..n}

Digits == <<"0", "1", "2", "3", "4", "5", "6", "7", "8", "9">>

Digit(d) == Digits[d + 1]

\* "%02d"
Pad2(n) == <<Digit((n \div 10) % 10), Digit(n % 10)>>

\* "%04d"
Pad4(n) == <<Digit((n \div 1000) % 10), Digit((n \div 100) % 10),
             Digit((n \div 10) % 10), Digit(n % 10)>>

\* str(n) of a non-negative int
RECURSIVE IntStr(_)
IntStr(n) == IF n < 10 THEN <<Digit(n)>> ELSE IntStr(n \div 10) \o <<Digit(n % 10)>>

(***************************************************************************)
(* JSON values of an event payload: [t |-> tag, v |-> value].              *)
(*   "str"  v is a sequence of characters                                  *)
(*   "int"  v is a non-negative integer                                    *)
(*   "bool" v is 0 (False) or 1 (True)                                     *)
(*   "null" v is 0                                                         *)
(*   "list" v is a sequence of character sequences (a list of strings)     *)
(***************************************************************************)
JStr(s) == [t |-> "str", v |-> s]
JInt(n) == [t |-> "int", v |-> n]
JBool(b) == [t |-> "bool", v |-> b]
JNull == [t |-> "null", v |-> 0]
JList(l) == [t |-> "list", v |-> l]

\* repr(s) of a str without quotes or backslashes
Repr(s) == <<"'">> \o s \o <<"'">>

RECURSIVE ReprJoin(_)
ReprJoin(l) ==
    IF l = <<>> THEN <<>>
    ELSE IF Len(l) = 1 THEN Repr(l[1])
    ELSE Repr(l[1]) \o <<",", " ">> \o ReprJoin(Tail(l))

\* Python's str(x) of a JSON value
PyStr(x) ==
    CASE x.t = "str" -> x.v
      [] x.t = "int" -> IntStr(x.v)
      [] x.t = "bool" -> IF x.v = 1 THEN <<"T", "r", "u", "e">>
                         ELSE <<"F", "a", "l", "s", "e">>
      [] x.t = "null" -> <<"N", "o", "n", "e">>
      [] x.t = "list" -> <<"[">> \o ReprJoin(x.v) \o <<"]">>

\* re.sub(r"([_])", r"\\\1", text)
RECURSIVE ReSubUnderscore(_)
ReSubUnderscore(s) ==
    IF s = <<>> THEN <<>>
    ELSE (IF Head(s) = "_" THEN <<"\\", "_">> ELSE <<Head(s)>>)
         \o ReSubUnderscore(Tail(s))

\* escape_text(text, platform)
escape_text(text, platform) ==
    IF text.t # "str" THEN PyStr(text)
    ELSE IF platform = "telegram" THEN ReSubUnderscore(text.v)
    ELSE text.v

(***************************************************************************)
(* The timestamp: datetime.fromtimestamp(ms / 1000, tz=utc).strftime(...)  *)
(***************************************************************************)
\* days since 1970-01-01 to (year, month, day) of the proleptic Gregorian
\* calendar
CivilFromDays(z0) ==
    LET z == z0 + 719468
        era == z \div 146097
        doe == z - era * 146097
        yoe == (doe - doe \div 1460 + doe \div 36524 - doe \div 146096) \div 365
        y == yoe + era * 400
        doy == doe - (365 * yoe + yoe \div 4 - yoe \div 100)
        mp == (5 * doy + 2) \div 153
        d == doy - (153 * mp + 2) \div 5 + 1
        m == IF mp < 10 THEN mp + 3 ELSE mp - 9
    IN  [year |-> IF m <= 2 THEN y + 1 ELSE y, month |-> m, day |-> d]

\* "%Y-%m-%d %H:%M:%S UTC" of a number of milliseconds since the epoch
FormatTimestamp(ms) ==
    LET secs == ms \div 1000
        date == CivilFromDays(secs \div 86400)
        sod == secs % 86400
    IN  Pad4(date.year) \o <<"-">> \o Pad2(date.month) \o <<"-">> \o Pad2(date.day)
        \o <<" ">> \o Pad2(sod \div 3600) \o <<":">> \o Pad2((sod \div 60) % 60)
        \o <<":">> \o Pad2(sod % 60) \o <<" ", "U", "T", "C">>

NA == <<"N", "/", "A">>

\* Python truthiness of a JSON value ("if raw_timestamp")
Truthy(x) ==
    CASE x.t = "str" -> x.v # <<>>
      [] x.t = "int" -> x.v # 0
      [] x.t = "bool" -> x.v = 1
      [] x.t = "null" -> FALSE
      [] x.t = "list" -> x.v # <<>>

\* body.get(key, "N/A")
GetOrNA(body, key) == IF key \in DOMAIN body THEN body[key] ELSE JStr(NA)

\* formatted_timestamp of format_message; the model's payloads carry an int
\* timestamp or none
FormattedTimestamp(body) ==
    IF "timestamp" \in DOMAIN body /\ Truthy(body["timestamp"])
    THEN FormatTimestamp(body["timestamp"].v)
    ELSE NA

(***************************************************************************)
(* format_message                                                          *)
(***************************************************************************)
LabelSite(platform) ==
    IF platform = "discord" THEN <<"*", "*", "S", "i", "t", "e", "*", "*">>
    ELSE <<"*", "S", "i", "t", "e", "*">>

LabelDescription(platform) ==
    IF platform = "discord"
    THEN <<"*", "*", "D", "e", "s", "c", "r", "i", "p", "t", "i", "o", "n", "*", "*">>
    ELSE <<"*", "D", "e", "s", "c", "r", "i", "p", "t", "i", "o", "n", "*">>

LabelController(platform) ==
    IF platform = "discord"
    THEN <<"*", "*", "C", "o", "n", "t", "r", "o", "l", "l", "e", "r", "*", "*">>
    ELSE <<"*", "C", "o", "n", "t", "r", "o", "l", "l", "e", "r", "*">>

LabelTimestamp(platform) ==
    IF platform = "discord"
    THEN <<"*", "*", "T", "i", "m", "e", "s", "t", "a", "m", "p", "*", "*">>
    ELSE <<"*", "T", "i", "m", "e", "s", "t", "a", "m", "p", "*">>

LabelEvents(platform) ==
    IF platform = "discord"
    THEN <<"*", "*", "E", "v", "e", "n", "t", "s", ":", "*", "*">>
    ELSE <<"*", "E", "v", "e", "n", "t", "s", ":", "*">>

\* the blanks of the f-strings collapsed to one
SingleSpace(n) == <<" ">>

Spaces(n) == [i \in 1..n |-> " "]

\* the four label lines of text_parts; the blanks after each colon are those
\* of the f-strings
SiteLine(body, platform) ==
    LabelSite(platform) \o <<":">> \o Spaces(8)
    \o escape_text(GetOrNA(body, "Site"), platform)

DescriptionLine(body, platform) ==
    LabelDescription(platform) \o <<":">> \o Spaces(1)
    \o escape_text(GetOrNA(body, "description"), platform)

ControllerLine(body, platform) ==
    LabelController(platform) \o <<":">> \o Spaces(2)
    \o escape_text(GetOrNA(body, "Controller"), platform)

TimestampLine(body, platform) ==
    LabelTimestamp(platform) \o <<":">> \o Spaces(3)
    \o escape_text(JStr(FormattedTimestamp(body)), platform)

\* the "- <line>" entries; an entry of the list is a str here
EventLines(body, platform) ==
    [i \in 1..Len(body["text"].v) |->
        <<"-", " ">> \o escape_text(JStr(body["text"].v[i]), platform)]

\* text_parts: the lines of the message
TextParts(body, platform) ==
    << SiteLine(body, platform), DescriptionLine(body, platform),
       ControllerLine(body, platform), TimestampLine(body, platform) >>
    \o (IF "text" \in DOMAIN body /\ body["text"].t = "list"
        THEN <<LabelEvents(platform)>> \o EventLines(body, platform)
        ELSE <<>>)

\* "\n".join(parts)
RECURSIVE JoinLines(_)
JoinLines(parts) ==
    IF parts = <<>> THEN <<>>
    ELSE IF Len(parts) = 1 THEN parts[1]
    ELSE parts[1] \o <<"\n">> \o JoinLines(Tail(parts))

format_message(body, platform) == JoinLines(TextParts(body, platform))

(***************************************************************************)
(* Queued messages and the two JSON files.                                 *)
(*                                                                         *)
(* A message is {"platform": ..., "body": ...}.  The model adds eid, the   *)
(* ordinal of the enqueue that created the entry: it is bookkeeping of the *)
(* verification, the program never reads it and compares messages with     *)
(* SameMsg.                                                                *)
(***************************************************************************)
Msg(platform, body, eid) == [platform |-> platform, body |-> body, eid |-> eid]

\* msg == message of two parsed JSON objects
SameMsg(a, b) == a.platform = b.platform /\ a.body = b.body

PlatformLen(p) ==
    CASE p = "telegram" -> 8
      [] p = "discord" -> 7
      [] OTHER -> 3

\* bytes of the characters of a str inside a JSON string literal: one each,
\* two for a backslash or a newline
JsonStrLen(s) ==
    Len(s) + Cardinality({i \in 1..Len(s) : s[i] \in {"\\", "\n"}})

\* bytes of one entry as json.dump(..., indent=4) writes it
EntryLen(e) == 54 + PlatformLen(e.platform) + JsonStrLen(e.body)

RECURSIVE EntriesLen(_)
EntriesLen(l) == IF l = <<>> THEN 0 ELSE EntryLen(Head(l)) + 2 + EntriesLen(Tail(l))

\* bytes of json.dump(l, f, indent=4): "[]", or the entries between "[\n"
\* and "\n]" joined by ",\n"
SerLen(l) == IF l = <<>> THEN 2 ELSE 2 + EntriesLen(l)

\* A file: the list whose serialization starts the file, and the size of
\* the file in bytes.  The file holds exactly one JSON document iff its size
\* is that of the serialization.
FileOf(l) == [list |-> l, size |-> SerLen(l)]

Valid(f) == f.size = SerLen(f.list)

\* f.seek(0); f.truncate()
Truncated == [list |-> <<>>, size |-> 0]

\* (f.seek(0);) json.dump(l, f, indent=4): overwrites from offset 0, and
\* keeps what the file held beyond the new text
DumpAt0(f, l) == [list |-> l, size |-> IF f.size > SerLen(l) THEN f.size ELSE SerLen(l)]

\* content.insert(0, data) in the place of content.append(data)
AppendAtFront(content, data) == <<data>> \o content

\* content.append(data)
AppendTo(content, data) == Append(content, data)

\* "msg is not message" in the place of "msg != message": no parsed entry
\* is the object message
RemoveByIdentity(queue, message) == queue

\* queue.remove(message) in the place of the comprehension: the first equal
\* entry only
RECURSIVE RemoveFirstEqual(_, _)
RemoveFirstEqual(queue, message) ==
    IF queue = <<>> THEN <<>>
    ELSE IF SameMsg(Head(queue), message) THEN Tail(queue)
    ELSE <<Head(queue)>> \o RemoveFirstEqual(Tail(queue), message)

\* [msg for msg in queue if msg != message]
RECURSIVE RemoveFrom(_, _)
RemoveFrom(queue, message) ==
    IF queue = <<>> THEN <<>>
    ELSE (IF SameMsg(Head(queue), message) THEN <<>> ELSE <<Head(queue)>>)
         \o RemoveFrom(Tail(queue), message)

(***************************************************************************)
(* Threads, requests and the state.                                        *)
(***************************************************************************)
Worker == 0
Handlers == 1..NumHandlers
Threads == {Worker} \cup Handlers
NoThread == -1

Secret == "secret"
\* headers.get("access_token"): the configured secret, another value, or
\* None when the header is missing
Tokens == {Secret, "wrong", "None"}

\* event payloads of the requests of Spec
Payload(i) ==
    IF i = 1
    THEN [x \in {"Site", "description", "shardSecret"} |->
            CASE x = "Site" -> JStr(<<"a", "_">>)
              [] x = "description" -> JStr(<<"a">>)
              [] x = "shardSecret" -> JStr(<<"a">>)]
    ELSE [x \in {"Site", "timestamp"} |->
            CASE x = "Site" -> JStr(<<"a">>)
              [] x = "timestamp" -> JInt(86400000)]

PayloadIds == {1}

\* body.pop("shardSecret", None)
PopShardSecret(body) == [k \in DOMAIN body \ {"shardSecret"} |-> body[k]]

NoMsg == Msg("none", <<>>, 0)
NoReq == [endpoint |-> "none", token |-> "None", payload |-> 0]

\* an entry no request can have written: its platform is not a known one
Poison == Msg("sms", <<"a">>, 1)

VARIABLES
    qfile,       \* message_queue.json
    sfile,       \* message_sent.json
    lock,        \* queue_lock: the thread holding it, or NoThread
    pc,          \* where each thread is
    content,     \* per thread: the list json.load returned (content / queue)
    data,        \* per thread: the argument of save_to_file / remove_from_queue
    req,         \* per handler: the request it is handling
    resp,        \* per handler: the answer it is about to return
    nreq,        \* requests accepted so far
    snapshot,    \* worker: queue, the list read at the start of the pass
    idx,         \* worker: position of message in queue (0 before the first)
    retries,     \* worker: retries
    senderDown,  \* the platforms whose API answers no request with 200
    emailEnable, \* EMAIL_CONFIG: the value of its "enable" key, or "missing"
    nextId,      \* next enqueue ordinal
    origin,      \* per enqueue ordinal: the request that created the entry
    delivered,   \* ordinals of the entries send_message returned True for
    removed,     \* ordinals of the entries remove_from_queue dropped
    attempts,    \* send_message calls for the current message in this pass
    alerts,      \* send_email_alert calls for the current message in this pass
    appends,     \* sent-log appends for the current message in this pass
    ok,          \* send_message returned True for the current message
    pass,        \* passes started, saturating at MaxPass
    fmtBody,     \* SpecFmt: the event payload
    fmtPlatform, \* SpecFmt: the platform
    fmtOut,      \* SpecFmt: the lines format_message joined
    qBefore,     \* SpecQueue: the queue content before the operation
    qArg,        \* SpecQueue: the message enqueued or removed
    phase        \* SpecFmt / SpecQueue: the driver's position ("run" in Spec)

vars == << qfile, sfile, lock, pc, content, data, req, resp, nreq, snapshot, idx,
           retries, senderDown, emailEnable, nextId, origin, delivered, removed, attempts,
           alerts, appends, ok, pass, fmtBody, fmtPlatform, fmtOut, qBefore,
           qArg, phase >>

fileVars == << qfile, sfile >>
callVars == << content, data >>
reqVars == << req, resp, nreq, nextId, origin >>
loopVars == << snapshot, idx, retries >>
ghostVars == << delivered, removed, attempts, alerts, appends, ok, pass >>
envVars == << senderDown, emailEnable >>
sideVars == << fmtBody, fmtPlatform, fmtOut, qBefore, qArg, phase >>

(***************************************************************************)
(* queue_lock and the request handlers.                                    *)
(***************************************************************************)
\* the file operation entered without waiting for the lock
AcquireWithoutWaiting(t) == lock' = t

\* "with queue_lock:" entered by thread t: blocks until the lock is free
Acquire(t) == lock = NoThread /\ lock' = t

\* leaving the "with queue_lock:" block, normally or by an exception
Release == lock' = NoThread

\* the comparison with WEBHOOK_SECRET left out
ValidateAnyToken(access_token) == TRUE

\* validate_access_token: TRUE when it returns, FALSE when it raises 403
validate_access_token(access_token) == access_token = Secret

\* the handler has its answer without touching a file
Answer(h, endpoint, tok, p, status) ==
    /\ req' = [req EXCEPT ![h] = [endpoint |-> endpoint, token |-> tok, payload |-> p]]
    /\ resp' = [resp EXCEPT ![h] = status]
    /\ nreq' = nreq + 1
    /\ pc' = [pc EXCEPT ![h] = "done"]
    /\ UNCHANGED << data, nextId, origin >>

\* the handler formats the event and calls save_to_file(QUEUE_FILE, ...)
Enqueue(h, endpoint, tok, p, platform) ==
    LET body == PopShardSecret(Payload(p))
        message_text == format_message(body, platform)
        r == [endpoint |-> endpoint, token |-> tok, payload |-> p]
    IN  /\ req' = [req EXCEPT ![h] = r]
        /\ resp' = [resp EXCEPT ![h] = "pending"]
        /\ nreq' = nreq + 1
        /\ data' = [data EXCEPT ![h] = Msg(platform, message_text, nextId)]
        /\ nextId' = nextId + 1
        /\ origin' = Append(origin, r)
        /\ pc' = [pc EXCEPT ![h] = "save_lock"]

Accepting(h) == phase = "run" /\ pc[h] = "idle" /\ nreq < MaxRequests

\* POST /tg_msg
queue_telegram(h, tok, p) ==
    /\ Accepting(h)
    /\ IF validate_access_token(tok)
       THEN Enqueue(h, "/tg_msg", tok, p, "telegram")
       ELSE Answer(h, "/tg_msg", tok, p, "forbidden")
    /\ UNCHANGED << fileVars, lock, content, loopVars, ghostVars, envVars, sideVars >>

\* queue_discord as a copy of queue_telegram that kept its platform
QueueDiscordAsTelegram(h, tok, p) ==
    /\ Accepting(h)
    /\ IF validate_access_token(tok)
       THEN Enqueue(h, "/discord_msg", tok, p, "telegram")
       ELSE Answer(h, "/discord_msg", tok, p, "forbidden")
    /\ UNCHANGED << fileVars, lock, content, loopVars, ghostVars, envVars, sideVars >>

\* POST /discord_msg
queue_discord(h, tok, p) ==
    /\ Accepting(h)
    /\ IF validate_access_token(tok)
       THEN Enqueue(h, "/discord_msg", tok, p, "discord")
       ELSE Answer(h, "/discord_msg", tok, p, "forbidden")
    /\ UNCHANGED << fileVars, lock, content, loopVars, ghostVars, envVars, sideVars >>

\* POST /webhook
receive_webhook(h, tok, p) ==
    /\ Accepting(h)
    /\ IF validate_access_token(tok)
       THEN Answer(h, "/webhook", tok, p, "received")
       ELSE Answer(h, "/webhook", tok, p, "forbidden")
    /\ UNCHANGED << fileVars, lock, content, loopVars, ghostVars, envVars, sideVars >>

\* GET /
root(h, tok) ==
    /\ Accepting(h)
    /\ Answer(h, "/", tok, 0, "running")
    /\ UNCHANGED << fileVars, lock, content, loopVars, ghostVars, envVars, sideVars >>

\* the response goes out and the handler is free for the next request
Respond(h) ==
    /\ pc[h] = "done"
    /\ phase = "run"
    /\ pc' = [pc EXCEPT ![h] = "idle"]
    /\ req' = [req EXCEPT ![h] = NoReq]
    /\ resp' = [resp EXCEPT ![h] = "none"]
    /\ data' = [data EXCEPT ![h] = NoMsg]
    /\ UNCHANGED << fileVars, lock, content, nreq, nextId, origin, loopVars, ghostVars,
                    envVars, sideVars >>

(***************************************************************************)
(* save_to_file(file, data), run by thread t: a handler appends to the     *)
(* queue file, the worker to the sent log.                                 *)
(***************************************************************************)
SaveFile(t) == IF t = Worker THEN sfile ELSE qfile

\* with queue_lock:
SaveAcquire(t) ==
    /\ pc[t] = "save_lock"
    /\ Acquire(t)
    /\ pc' = [pc EXCEPT ![t] = "save_read"]
    /\ UNCHANGED << fileVars, callVars, reqVars, loopVars, ghostVars, envVars, sideVars >>

\* thread t leaves a call by an exception nothing catches: a handler answers
\* a server error, the worker thread ends
Raise(t) ==
    /\ Release
    /\ pc' = [pc EXCEPT ![t] = IF t = Worker THEN "dead" ELSE "done"]
    /\ resp' = IF t = Worker THEN resp ELSE [resp EXCEPT ![t] = "error"]
    /\ content' = [content EXCEPT ![t] = <<>>]
    /\ data' = [data EXCEPT ![t] = NoMsg]

\* open(file, "r+"); content = json.load(f)
SaveRead(t) ==
    /\ pc[t] = "save_read"
    /\ IF Valid(SaveFile(t))
       THEN /\ content' = [content EXCEPT ![t] = SaveFile(t).list]
            /\ pc' = [pc EXCEPT ![t] = "save_write"]
            /\ UNCHANGED << lock, resp, data >>
       ELSE Raise(t)
    /\ UNCHANGED << fileVars, req, nreq, nextId, origin, loopVars, ghostVars,
                    envVars, sideVars >>

\* content.append(data); f.seek(0); json.dump(content, f, indent=4); the
\* file is closed, the lock released and the call returns: a handler has its
\* answer, the worker breaks out of the retry loop
SaveWrite(t) ==
    /\ pc[t] = "save_write"
    /\ IF t = Worker
       THEN /\ sfile' = DumpAt0(sfile, AppendTo(content[t], data[t]))
            /\ appends' = appends + 1
            /\ pc' = [pc EXCEPT ![t] = "for_next"]
            /\ UNCHANGED << qfile, resp >>
       ELSE /\ qfile' = DumpAt0(qfile, AppendTo(content[t], data[t]))
            /\ resp' = [resp EXCEPT ![t] = "queued"]
            /\ pc' = [pc EXCEPT ![t] = "done"]
            /\ UNCHANGED << sfile, appends >>
    /\ Release
    /\ content' = [content EXCEPT ![t] = <<>>]
    /\ data' = [data EXCEPT ![t] = IF t = Worker THEN NoMsg ELSE data[t]]
    /\ UNCHANGED << req, nreq, nextId, origin, loopVars, delivered, removed,
                    attempts, alerts, ok, pass, envVars, sideVars >>

(***************************************************************************)
(* remove_from_queue(message), run by thread t.                            *)
(***************************************************************************)
\* the enqueue ordinals of the entries of a list
Ids(l) == {l[i].eid : i \in 1..Len(l)}

\* with queue_lock:
RemoveAcquire(t) ==
    /\ pc[t] = "rm_lock"
    /\ Acquire(t)
    /\ pc' = [pc EXCEPT ![t] = "rm_read"]
    /\ UNCHANGED << fileVars, callVars, reqVars, loopVars, ghostVars, envVars, sideVars >>

\* the removal computed from the list the pass started with in the place of
\* the list loaded from the file
RemoveReadFromSnapshot(t) ==
    /\ pc[t] = "rm_read"
    /\ IF Valid(qfile)
       THEN /\ content' = [content EXCEPT ![t] = RemoveFrom(snapshot, data[t])]
            /\ pc' = [pc EXCEPT ![t] = "rm_truncate"]
            /\ UNCHANGED << lock, resp, data >>
       ELSE Raise(t)
    /\ UNCHANGED << fileVars, req, nreq, nextId, origin, loopVars, ghostVars,
                    envVars, sideVars >>

\* open(QUEUE_FILE, "r+"); queue = json.load(f);
\* queue = [msg for msg in queue if msg != message]
RemoveRead(t) ==
    /\ pc[t] = "rm_read"
    /\ IF Valid(qfile)
       THEN /\ content' = [content EXCEPT ![t] = RemoveFrom(qfile.list, data[t])]
            /\ pc' = [pc EXCEPT ![t] = "rm_truncate"]
            /\ UNCHANGED << lock, resp, data >>
       ELSE Raise(t)
    /\ UNCHANGED << fileVars, req, nreq, nextId, origin, loopVars, ghostVars,
                    envVars, sideVars >>

\* f.seek(0) without f.truncate(): the file keeps its bytes
RemoveSeekOnly(t) ==
    /\ pc[t] = "rm_truncate"
    /\ qfile' = qfile
    /\ removed' = removed \cup (Ids(qfile.list) \ Ids(content[t]))
    /\ pc' = [pc EXCEPT ![t] = "rm_write"]
    /\ UNCHANGED << sfile, lock, callVars, reqVars, loopVars, delivered, attempts,
                    alerts, appends, ok, pass, envVars, sideVars >>

\* f.seek(0); f.truncate()
RemoveTruncate(t) ==
    /\ pc[t] = "rm_truncate"
    /\ qfile' = Truncated
    /\ removed' = removed \cup (Ids(qfile.list) \ Ids(content[t]))
    /\ pc' = [pc EXCEPT ![t] = "rm_write"]
    /\ UNCHANGED << sfile, lock, callVars, reqVars, loopVars, delivered, attempts,
                    alerts, appends, ok, pass, envVars, sideVars >>

\* json.dump(queue, f, indent=4); the file is closed and the lock released;
\* process_queue goes on to save_to_file(SENT_FILE, message)
RemoveWrite(t) ==
    /\ pc[t] = "rm_write"
    /\ qfile' = DumpAt0(qfile, content[t])
    /\ Release
    /\ content' = [content EXCEPT ![t] = <<>>]
    /\ pc' = [pc EXCEPT ![t] = "save_lock"]
    /\ UNCHANGED << sfile, data, reqVars, loopVars, ghostVars, envVars, sideVars >>

(***************************************************************************)
(* process_queue: the worker thread.                                       *)
(***************************************************************************)
\* with queue_lock: (the snapshot read)
SnapshotAcquire ==
    /\ pc[Worker] = "snap_lock"
    /\ Acquire(Worker)
    /\ pc' = [pc EXCEPT ![Worker] = "snap_read"]
    /\ UNCHANGED << fileVars, callVars, reqVars, loopVars, ghostVars, envVars, sideVars >>

\* the for loop indented into the "with queue_lock:" block: the snapshot is
\* read and the lock is kept
SnapshotReadKeepingLock ==
    /\ pc[Worker] = "snap_read"
    /\ IF Valid(qfile)
       THEN /\ snapshot' = qfile.list
            /\ idx' = 0
            /\ pc' = [pc EXCEPT ![Worker] = "for_next"]
            /\ UNCHANGED << lock, resp, callVars >>
       ELSE Raise(Worker) /\ UNCHANGED << snapshot, idx >>
    /\ UNCHANGED << fileVars, req, nreq, nextId, origin, retries, ghostVars,
                    envVars, sideVars >>

\* open(QUEUE_FILE, "r"); queue = json.load(f); the lock is released
SnapshotRead ==
    /\ pc[Worker] = "snap_read"
    /\ IF Valid(qfile)
       THEN /\ snapshot' = qfile.list
            /\ idx' = 0
            /\ pc' = [pc EXCEPT ![Worker] = "for_next"]
            /\ Release
            /\ UNCHANGED << resp, callVars >>
       ELSE Raise(Worker) /\ UNCHANGED << snapshot, idx >>
    /\ UNCHANGED << fileVars, req, nreq, nextId, origin, retries, ghostVars,
                    envVars, sideVars >>

\* "while retries <= send_retry_num": one attempt too many
AfterRetriesOffByOne(r) == IF r <= send_retry_num THEN "send" ELSE "alert"

\* "while retries < send_retry_num" and, once it is false,
\* "if retries >= send_retry_num": where the worker goes with r retries
AfterRetries(r) == IF r < send_retry_num THEN "send" ELSE "alert"

\* the queue file read again at every turn of the for loop, in the place of
\* the list read once at the start of the pass
ForNextRereading ==
    /\ pc[Worker] = "for_next"
    /\ phase = "run"
    /\ IF idx < Len(qfile.list)
       THEN /\ idx' = idx + 1
            /\ retries' = 0
            /\ pc' = [pc EXCEPT ![Worker] = AfterRetries(0)]
            /\ snapshot' = qfile.list
       ELSE /\ pc' = [pc EXCEPT ![Worker] = "idle_sleep"]
            /\ snapshot' = <<>>
            /\ idx' = 0
            /\ retries' = 0
    /\ attempts' = 0
    /\ alerts' = 0
    /\ appends' = 0
    /\ ok' = FALSE
    /\ UNCHANGED << fileVars, lock, callVars, reqVars, delivered, removed,
                    pass, envVars, sideVars >>

\* for message in queue: retries = 0; after the last message, the idle sleep
ForNext ==
    /\ pc[Worker] = "for_next"
    /\ phase = "run"
    /\ IF idx < Len(snapshot)
       THEN /\ idx' = idx + 1
            /\ retries' = 0
            /\ pc' = [pc EXCEPT ![Worker] = AfterRetries(0)]
            /\ UNCHANGED snapshot
       ELSE /\ pc' = [pc EXCEPT ![Worker] = "idle_sleep"]
            /\ snapshot' = <<>>
            /\ idx' = 0
            /\ retries' = 0
    /\ attempts' = 0
    /\ alerts' = 0
    /\ appends' = 0
    /\ ok' = FALSE
    /\ UNCHANGED << fileVars, lock, callVars, reqVars, delivered, removed,
                    pass, envVars, sideVars >>

\* the answers send_message(message) can give: True or False as the
\* platform's API answers 200 or not, False for any other platform; "raise"
\* when requests.post raises
SendOutcomes(message) ==
    IF message.platform \notin {"telegram", "discord"} THEN {"False"}
    ELSE IF message.platform \in senderDown THEN {"False", "raise"}
    ELSE {"True", "False", "raise"}

\* success = send_message(message), and what follows it in the loop body;
\* an exception of the sender ends the thread
Send(outcome) ==
    /\ pc[Worker] = "send"
    /\ outcome \in SendOutcomes(snapshot[idx])
    /\ CASE outcome = "True" ->
              /\ ok' = TRUE
              /\ attempts' = attempts + 1
              /\ delivered' = delivered \cup {snapshot[idx].eid}
              /\ data' = [data EXCEPT ![Worker] = snapshot[idx]]
              /\ pc' = [pc EXCEPT ![Worker] = "rm_lock"]
              /\ UNCHANGED loopVars
         [] outcome = "False" ->
              /\ retries' = retries + 1
              /\ attempts' = attempts + 1
              /\ pc' = [pc EXCEPT ![Worker] = "retry_sleep"]
              /\ UNCHANGED << ok, delivered, data, snapshot, idx >>
         [] outcome = "raise" ->
              /\ pc' = [pc EXCEPT ![Worker] = "dead"]
              /\ snapshot' = <<>>
              /\ idx' = 0
              /\ retries' = 0
              /\ attempts' = 0
              /\ UNCHANGED << ok, delivered, data >>
    /\ UNCHANGED << fileVars, lock, content, reqVars, removed, alerts,
                    appends, pass, envVars, sideVars >>

\* time.sleep(send_retry_sleep), then the loop condition
RetrySleep ==
    /\ pc[Worker] = "retry_sleep"
    /\ pc' = [pc EXCEPT ![Worker] = AfterRetries(retries)]
    /\ UNCHANGED << fileVars, lock, callVars, reqVars, loopVars, ghostVars, envVars,
                    sideVars >>

\* send_email_alert(...): EMAIL_CONFIG["enable"] is read outside the try
\* block, and with no such key the KeyError ends the thread; with the key
\* the call returns whether or not the mail went out (an SMTP error is
\* caught)
Alert ==
    /\ pc[Worker] = "alert"
    /\ alerts' = alerts + 1
    /\ IF emailEnable = "missing"
       THEN /\ pc' = [pc EXCEPT ![Worker] = "dead"]
            /\ snapshot' = <<>>
            /\ idx' = 0
            /\ retries' = 0
            /\ attempts' = 0
       ELSE /\ pc' = [pc EXCEPT ![Worker] = "alert_sleep"]
            /\ UNCHANGED << loopVars, attempts >>
    /\ UNCHANGED << fileVars, lock, callVars, reqVars, delivered, removed,
                    appends, ok, pass, envVars, sideVars >>

\* time.sleep(send_retry_wait)
AlertSleep ==
    /\ pc[Worker] = "alert_sleep"
    /\ pc' = [pc EXCEPT ![Worker] = "for_next"]
    /\ UNCHANGED << fileVars, lock, callVars, reqVars, loopVars, ghostVars, envVars,
                    sideVars >>

\* time.sleep(5), then the next pass
IdleSleep ==
    /\ pc[Worker] = "idle_sleep"
    /\ pc' = [pc EXCEPT ![Worker] = "snap_lock"]
    /\ pass' = IF pass < MaxPass THEN pass + 1 ELSE pass
    /\ UNCHANGED << fileVars, lock, callVars, reqVars, loopVars, delivered, removed,
                    attempts, alerts, appends, ok, envVars, sideVars >>

(***************************************************************************)
(* The running service.                                                    *)
(***************************************************************************)
\* what message_queue.json may hold when the process starts: the file is
\* created empty only if it does not exist
InitialQueues == { <<>>, <<Poison>> }

\* the environments: every API may answer 200, or Telegram's never does
SenderDowns == { {}, {"telegram"} }

\* config.get("email", {}): a section with "enable" set, or one without the
\* key (the default {} of a configuration with no email section)
EmailEnables == {"True", "missing"}

SideIdle ==
    /\ fmtBody = <<>>
    /\ fmtPlatform = "none"
    /\ fmtOut = <<>>
    /\ qBefore = <<>>
    /\ qArg = NoMsg

\* the process after start-up, whatever the two files hold: the entries
\* found in the queue file take the first ordinals
Started ==
    /\ nextId = Len(qfile.list) + 1
    /\ origin = [i \in 1..Len(qfile.list) |-> NoReq]
    /\ lock = NoThread
    /\ pc = [t \in Threads |-> IF t = Worker THEN "snap_lock" ELSE "idle"]
    /\ content = [t \in Threads |-> <<>>]
    /\ data = [t \in Threads |-> NoMsg]
    /\ req = [h \in Handlers |-> NoReq]
    /\ resp = [h \in Handlers |-> "none"]
    /\ nreq = 0
    /\ snapshot = <<>>
    /\ idx = 0
    /\ retries = 0
    /\ senderDown \in SenderDowns
    /\ emailEnable \in EmailEnables
    /\ delivered = {}
    /\ removed = {}
    /\ attempts = 0
    /\ alerts = 0
    /\ appends = 0
    /\ ok = FALSE
    /\ pass = 1
    /\ SideIdle
    /\ phase = "run"

Init ==
    /\ \E q \in InitialQueues : qfile = FileOf(q)
    /\ sfile = FileOf(<<>>)
    /\ Started

Next ==
    \/ \E h \in Handlers, tok \in Tokens, p \in PayloadIds : queue_telegram(h, tok, p)
    \/ \E h \in Handlers, tok \in Tokens, p \in PayloadIds : queue_discord(h, tok, p)
    \/ \E h \in Handlers, tok \in Tokens, p \in PayloadIds : receive_webhook(h, tok, p)
    \/ \E h \in Handlers, tok \in Tokens : root(h, tok)
    \/ \E h \in Handlers : Respond(h)
    \/ \E t \in Threads : SaveAcquire(t)
    \/ \E t \in Threads : SaveRead(t)
    \/ \E t \in Threads : SaveWrite(t)
    \/ RemoveAcquire(Worker)
    \/ RemoveRead(Worker)
    \/ RemoveTruncate(Worker)
    \/ RemoveWrite(Worker)
    \/ SnapshotAcquire
    \/ SnapshotRead
    \/ ForNext
    \/ \E outcome \in {"True", "False", "raise"} : Send(outcome)
    \/ RetrySleep
    \/ Alert
    \/ AlertSleep
    \/ IdleSleep

Spec == Init /\ [][Next]_vars

\* Scheduling: every thread that can take a step eventually takes one, and
\* a thread blocked on queue_lock gets it if it is free again and again (the
\* worker sleeps with the lock free between any two of its file operations).
Fairness ==
    /\ \A h \in Handlers :
          SF_vars(SaveAcquire(h) \/ SaveRead(h) \/ SaveWrite(h) \/ Respond(h))
    /\ WF_vars(\/ SaveAcquire(Worker) \/ SaveRead(Worker) \/ SaveWrite(Worker)
               \/ RemoveAcquire(Worker) \/ RemoveRead(Worker) \/ RemoveTruncate(Worker)
               \/ RemoveWrite(Worker) \/ SnapshotAcquire \/ SnapshotRead
               \/ ForNext \/ RetrySleep \/ Alert \/ AlertSleep \/ IdleSleep)

\* the service started on an empty queue file, with APIs that may answer
\* anything
InitFair == Init /\ qfile = FileOf(<<>>) /\ senderDown = {}

FairSpec == InitFair /\ [][Next]_vars /\ Fairness

(***************************************************************************)
(* LiveSpec: the service with senders and an alerter that always return:   *)
(* no step ends the worker thread, and a pending send_message call         *)
(* returns.                                                                *)
(***************************************************************************)
InitLive == InitFair /\ emailEnable = "True"

NextLive == Next /\ pc'[Worker] # "dead"

LiveFairness ==
    /\ Fairness
    /\ WF_vars(Send("True") \/ Send("False"))

LiveSpec == InitLive /\ [][NextLive]_vars /\ LiveFairness

(***************************************************************************)
(* SpecIO: the service started on files a stopped process left behind.  A  *)
(* process killed between f.truncate() and json.dump of remove_from_queue, *)
(* or between open(file, "w") and json.dump at start-up, leaves a file of  *)
(* no bytes: it exists, so it is not created again, and json.load raises   *)
(* on it.                                                                  *)
(***************************************************************************)
InitIO ==
    /\ \/ qfile = Truncated /\ sfile = FileOf(<<>>)
       \/ (\E q \in InitialQueues : qfile = FileOf(q)) /\ sfile = Truncated
    /\ Started

SpecIO == InitIO /\ [][Next]_vars

(***************************************************************************)
(* SpecFmt: format_message applied to one event payload.                   *)
(***************************************************************************)
Absent == [t |-> "absent", v |-> 0]

Keys == {"Site", "description", "Controller", "timestamp", "text"}

\* the JSON object with the given fields, those that are Absent left out
MkBody(site, description, controller, timestamp, text) ==
    LET all == [k \in Keys |->
                  CASE k = "Site" -> site
                    [] k = "description" -> description
                    [] k = "Controller" -> controller
                    [] k = "timestamp" -> timestamp
                    [] k = "text" -> text]
    IN  [k \in {x \in Keys : all[x].t # "absent"} |-> all[k]]

SiteValues ==
    {JStr(s) : s \in StrsUpTo(MaxStrLen)}
    \cup {JInt(0), JInt(12), JBool(1), JNull, JList(<<>>), JList(<< <<"a", "_">> >>), Absent}

DescriptionValues == {JStr(<<"_">>), JList(<< <<"_">>, <<"a">> >>), Absent}

ControllerValues == {JStr(<<"a">>), JInt(12), Absent}

TimestampValues == {JInt(0), JInt(1), JInt(86399999), JInt(2147483647), Absent}

TextValues ==
    {JList(<<>>), JList(<< <<"a", "_">> >>), JList(<< <<"_">>, <<"a">> >>),
     JStr(<<"a", "_">>), Absent}

MainIdle ==
    /\ qfile = FileOf(<<>>)
    /\ sfile = FileOf(<<>>)
    /\ lock = NoThread
    /\ content = [t \in Threads |-> <<>>]
    /\ data = [t \in Threads |-> NoMsg]
    /\ req = [h \in Handlers |-> NoReq]
    /\ resp = [h \in Handlers |-> "none"]
    /\ nreq = 0
    /\ snapshot = <<>>
    /\ idx = 0
    /\ retries = 0
    /\ senderDown = {}
    /\ emailEnable = "True"
    /\ nextId = 1
    /\ origin = <<>>
    /\ delivered = {}
    /\ removed = {}
    /\ attempts = 0
    /\ alerts = 0
    /\ appends = 0
    /\ ok = FALSE
    /\ pass = 1

InitFmt ==
    /\ MainIdle
    /\ pc = [t \in Threads |-> "stopped"]
    /\ \E site \in SiteValues, description \in DescriptionValues,
          controller \in ControllerValues, timestamp \in TimestampValues,
          text \in TextValues :
          fmtBody = MkBody(site, description, controller, timestamp, text)
    /\ fmtPlatform \in {"telegram", "discord"}
    /\ fmtOut = <<>>
    /\ qBefore = <<>>
    /\ qArg = NoMsg
    /\ phase = "fmt_in"

\* fmtOut = format_message(fmtBody, fmtPlatform)
FmtCall ==
    /\ phase = "fmt_in"
    /\ fmtOut' = format_message(fmtBody, fmtPlatform)
    /\ phase' = "fmt_out"
    /\ UNCHANGED << fileVars, lock, pc, callVars, reqVars, loopVars, ghostVars, envVars,
                    fmtBody, fmtPlatform, qBefore, qArg >>

NextFmt == FmtCall

SpecFmt == InitFmt /\ [][NextFmt]_vars

(***************************************************************************)
(* SpecQueue: one caller applies save_to_file(QUEUE_FILE, qArg) or         *)
(* remove_from_queue(qArg) to a queue file holding qBefore, then reads a   *)
(* snapshot as process_queue does.                                         *)
(***************************************************************************)
QValues == {[platform |-> p, body |-> b] : p \in {"telegram", "discord"},
                                           b \in {<<"a">>, <<"_">>}}

\* the queue contents: lists of at most MaxQueueLen messages
QContents ==
    UNION {[1..n -> QValues] : n \in 0..MaxQueueLen}

\* the entries of a list numbered in order
Numbered(l) == [i \in 1..Len(l) |-> Msg(l[i].platform, l[i].body, i)]

InitQueue ==
    /\ \E q \in QContents, m \in QValues :
          /\ qBefore = Numbered(q)
          /\ qArg = Msg(m.platform, m.body, Len(q) + 1)
          /\ qfile = FileOf(Numbered(q))
          /\ nextId = Len(q) + 2
          /\ origin = [i \in 1..(Len(q) + 1) |-> NoReq]
    /\ sfile = FileOf(<<>>)
    /\ lock = NoThread
    /\ pc = [t \in Threads |-> "stopped"]
    /\ content = [t \in Threads |-> <<>>]
    /\ data = [t \in Threads |-> NoMsg]
    /\ req = [h \in Handlers |-> NoReq]
    /\ resp = [h \in Handlers |-> "none"]
    /\ nreq = 0
    /\ snapshot = <<>>
    /\ idx = 0
    /\ retries = 0
    /\ senderDown = {}
    /\ emailEnable = "True"
    /\ delivered = {}
    /\ removed = {}
    /\ attempts = 0
    /\ alerts = 0
    /\ appends = 0
    /\ ok = FALSE
    /\ pass = 1
    /\ fmtBody = <<>>
    /\ fmtPlatform = "none"
    /\ fmtOut = <<>>
    /\ phase = "start"

\* the caller calls save_to_file(QUEUE_FILE, qArg)
QCallEnqueue ==
    /\ phase = "start"
    /\ phase' = "enqueue"
    /\ pc' = [pc EXCEPT ![1] = "save_lock"]
    /\ data' = [data EXCEPT ![1] = qArg]
    /\ UNCHANGED << fileVars, lock, content, reqVars, loopVars, ghostVars, envVars,
                    fmtBody, fmtPlatform, fmtOut, qBefore, qArg >>

\* the caller calls remove_from_queue(qArg)
QCallRemove ==
    /\ phase = "start"
    /\ phase' = "remove"
    /\ pc' = [pc EXCEPT ![Worker] = "rm_lock"]
    /\ data' = [data EXCEPT ![Worker] = qArg]
    /\ UNCHANGED << fileVars, lock, content, reqVars, loopVars, ghostVars, envVars,
                    fmtBody, fmtPlatform, fmtOut, qBefore, qArg >>

\* the call has returned: the snapshot read of process_queue follows
QCallSnapshot ==
    /\ \/ phase = "enqueue" /\ pc[1] = "done" /\ phase' = "enqueued"
       \/ phase = "remove" /\ pc[Worker] = "save_lock" /\ phase' = "removed"
    /\ pc' = [pc EXCEPT ![Worker] = "snap_lock"]
    /\ UNCHANGED << fileVars, lock, callVars, reqVars, loopVars, ghostVars, envVars,
                    fmtBody, fmtPlatform, fmtOut, qBefore, qArg >>

NextQueue ==
    \/ QCallEnqueue
    \/ SaveAcquire(1)
    \/ SaveRead(1)
    \/ SaveWrite(1)
    \/ QCallRemove
    \/ RemoveAcquire(Worker)
    \/ RemoveRead(Worker)
    \/ RemoveTruncate(Worker)
    \/ RemoveWrite(Worker)
    \/ QCallSnapshot
    \/ SnapshotAcquire
    \/ SnapshotRead

SpecQueue == InitQueue /\ [][NextQueue]_vars

(***************************************************************************)
(* Properties.                                                             *)
(***************************************************************************)
\* number of entries of l equal to m as the program compares them
RECURSIVE Count(_, _)
Count(l, m) ==
    IF l = <<>> THEN 0
    ELSE (IF SameMsg(Head(l), m) THEN 1 ELSE 0) + Count(Tail(l), m)

\* the message the worker is working on, or has just finished
Cur == snapshot[idx]

SavePcs == {"save_lock", "save_read", "save_write"}
RemovePcs == {"rm_lock", "rm_read", "rm_truncate", "rm_write"}

\* the positions inside an open file of either store
FilePcs == {"snap_read", "save_read", "save_write", "rm_read", "rm_truncate", "rm_write"}

\* ordinals whose enqueue has returned: issued, and no handler still holds
\* the entry unwritten
Enqueued ==
    {e \in 1..(nextId - 1) :
        \A h \in Handlers : ~(pc[h] \in SavePcs /\ data[h].eid = e)}

\* C1: every message whose enqueue has completed is still in the queue file
\* or has been delivered by a successful send_message of its own (counted
\* per enqueue, also among messages equal by value).  Read while the queue
\* file is not in the middle of a rewrite.
C1_AtLeastOnce ==
    Valid(qfile) =>
        \A e \in Enqueued : e \in Ids(qfile.list) \/ e \in delivered

\* send_message can return True for no attempt on m
AlwaysFails(m) == m.platform \notin {"telegram", "discord"} \/ m.platform \in senderDown

\* the worker has finished Cur without a successful send
Exhausted == pc[Worker] = "alert_sleep" \/ (pc[Worker] = "for_next" /\ idx >= 1 /\ ~ok)

\* C2: in every pass, a message whose send_message fails on every attempt
\* (its sender always fails, or its platform is unknown) is attempted exactly
\* send_retry_num times, counted from zero in that pass, then alerted exactly
\* once, and is still in the queue file afterwards.
C2_RetryExhaustion ==
    /\ attempts <= send_retry_num
    /\ alerts <= 1
    /\ pc[Worker] \in {"send", "retry_sleep", "alert"} => attempts = retries /\ alerts = 0
    /\ pc[Worker] = "send" => attempts < send_retry_num
    /\ pc[Worker] = "alert" => attempts = send_retry_num
    /\ Exhausted => attempts = send_retry_num /\ alerts = 1
    /\ (idx >= 1 /\ AlwaysFails(Cur)) =>
          /\ ~ok
          /\ Valid(qfile)
          /\ Cur.eid \in Ids(qfile.list)
          /\ Count(qfile.list, Cur) >= 1

\* the case of C2: in a later pass, a message of a sender that always fails
\* has used up its attempts and has been alerted
C2_Witness ==
    /\ pass >= 2
    /\ pc[Worker] = "alert_sleep"
    /\ Cur.platform = "telegram"
    /\ attempts = send_retry_num
    /\ alerts = 1
    /\ Cur.eid \in Ids(qfile.list)

\* C3: a message whose send_message first succeeds on attempt N, with
\* 1 <= N <= send_retry_num, is attempted no further in that pass, removed
\* from the queue file, appended to the sent log exactly once, and never
\* alerted.
C3_SuccessOnNth ==
    /\ ok =>
          /\ attempts \in 1..send_retry_num
          /\ attempts = retries + 1
          /\ alerts = 0
          /\ pc[Worker] \in RemovePcs \cup SavePcs \cup {"for_next"}
    /\ (ok /\ pc[Worker] \in RemovePcs \cup {"save_lock", "save_read", "save_write"}) =>
          /\ appends = 0
          /\ Cur.eid \notin Ids(sfile.list)
    /\ (ok /\ pc[Worker] \in SavePcs \cup {"for_next"}) =>
          /\ Valid(qfile)
          /\ Cur.eid \notin Ids(qfile.list)
    /\ (ok /\ pc[Worker] = "for_next") =>
          /\ appends = 1
          /\ Valid(sfile)
          /\ Cardinality({i \in 1..Len(sfile.list) : sfile.list[i].eid = Cur.eid}) = 1
          /\ sfile.list[Len(sfile.list)] = Cur

\* the case of C3: the send succeeded on the second attempt and the worker
\* has finished the message
C3_Witness ==
    /\ ok
    /\ pc[Worker] = "for_next"
    /\ attempts = 2
    /\ Cur \in {sfile.list[i] : i \in 1..Len(sfile.list)}

\* C4: at most one thread at a time is inside a file operation on the queue
\* file or the sent log, and that thread holds queue_lock.
C4_MutualExclusion ==
    LET inside == {t \in Threads : pc[t] \in FilePcs}
    IN  /\ Cardinality(inside) <= 1
        /\ \A t \in inside : lock = t
        /\ inside = {} => lock = NoThread

\* the case of C4: a handler is inside save_to_file while the other handler
\* and the worker wait for the lock
C4_Witness ==
    /\ pc[1] = "save_write"
    /\ pc[2] = "save_lock"
    /\ pc[Worker] \in {"snap_lock", "rm_lock", "save_lock"}

\* C5: the worker never holds queue_lock inside send_message,
\* send_email_alert or a sleep, and under fair scheduling every authenticated
\* /tg_msg or /discord_msg request completes its enqueue and answers queued.
C5_EnqueueNeverWaitsForDelivery ==
    /\ [](pc[Worker] \notin FilePcs => lock # Worker)
    /\ \A h \in Handlers :
          (pc[h] = "save_lock") ~> (pc[h] = "done" /\ resp[h] = "queued")

\* the case of C5: a handler is inside its enqueue while the worker is
\* between two failed attempts
C5_Witness ==
    /\ pc[Worker] = "retry_sleep"
    /\ \E h \in Handlers : pc[h] = "save_write" /\ lock = h

\* the entries of l other than those equal to m, in their order
RECURSIVE Others(_, _)
Others(l, m) ==
    IF l = <<>> THEN <<>>
    ELSE IF SameMsg(Head(l), m) THEN Others(Tail(l), m)
    ELSE <<Head(l)>> \o Others(Tail(l), m)

\* C6: after remove_from_queue(msg) the queue file holds no entry equal to
\* msg, however many it held, and every other entry as often as before and
\* in the same order; the snapshot read that follows sees just that.
C6_RemoveAllEqual ==
    /\ (phase = "remove" /\ pc[Worker] = "save_lock") =>
          /\ Valid(qfile)
          /\ Count(qfile.list, qArg) = 0
          /\ qfile.list = Others(qBefore, qArg)
          /\ \A i \in 1..Len(qBefore) :
                ~SameMsg(qBefore[i], qArg) =>
                    Count(qfile.list, qBefore[i]) = Count(qBefore, qBefore[i])
    /\ (phase = "removed" /\ pc[Worker] = "for_next") =>
          /\ Count(snapshot, qArg) = 0
          /\ snapshot = Others(qBefore, qArg)

\* the case of C6: the queue held the message more than once, and other
\* entries besides
C6_Witness ==
    /\ phase = "removed"
    /\ pc[Worker] = "for_next"
    /\ Count(qBefore, qArg) >= 2
    /\ Len(snapshot) >= 1

\* C7: an enqueue of msg followed immediately by a snapshot yields the
\* previous list with msg appended at its end: msg occurs once more than
\* before and the earlier entries are unchanged, in the same order.
C7_EnqueueThenSnapshot ==
    (phase = "enqueued" /\ pc[Worker] = "for_next") =>
        /\ Len(snapshot) = Len(qBefore) + 1
        /\ snapshot[Len(snapshot)] = qArg
        /\ \A i \in 1..Len(qBefore) : snapshot[i] = qBefore[i]
        /\ Count(snapshot, qArg) = Count(qBefore, qArg) + 1
        /\ Valid(qfile)
        /\ qfile.list = snapshot

\* the case of C7: the message is enqueued behind an entry equal to it
C7_Witness ==
    /\ phase = "enqueued"
    /\ pc[Worker] = "for_next"
    /\ Count(qBefore, qArg) >= 1
    /\ Count(snapshot, qArg) = Count(qBefore, qArg) + 1

PostEndpoints == {"/tg_msg", "/discord_msg", "/webhook"}
QueueEndpoints == {"/tg_msg", "/discord_msg"}

\* the request is one that may enqueue
Authorised(r) == r.endpoint \in QueueEndpoints /\ r.token = Secret

\* C8: only a POST to /tg_msg or /discord_msg whose access_token equals the
\* secret gets to the queue: with a missing or wrong token the request is
\* answered forbidden and its handler touches neither file; /webhook and
\* GET / enqueue nothing; every entry a request created comes from an
\* authorised one.
C8_AuthRequired ==
    /\ \A h \in Handlers :
          /\ pc[h] \in SavePcs => Authorised(req[h])
          /\ resp[h] \in {"pending", "queued"} => Authorised(req[h])
          /\ (pc[h] = "done" /\ req[h].endpoint \in PostEndpoints /\ req[h].token # Secret)
                => resp[h] = "forbidden"
          /\ (pc[h] = "done" /\ req[h].endpoint = "/webhook" /\ req[h].token = Secret)
                => resp[h] = "received"
          /\ (pc[h] = "done" /\ req[h].endpoint = "/") => resp[h] = "running"
    /\ \A e \in 1..(nextId - 1) : origin[e] = NoReq \/ Authorised(origin[e])
    /\ \A e \in Ids(qfile.list) \cup Ids(sfile.list) : e \in 1..(nextId - 1)

\* the case of C8: a /tg_msg request without the header has been refused
\* while the queue holds an entry
C8_Witness ==
    /\ \E h \in Handlers :
          /\ pc[h] = "done"
          /\ req[h].endpoint = "/tg_msg"
          /\ req[h].token = "None"
          /\ resp[h] = "forbidden"
    /\ Valid(qfile)
    /\ Len(qfile.list) >= 1

\* the platform an endpoint queues for
PlatformOf(endpoint) == IF endpoint = "/tg_msg" THEN "telegram" ELSE "discord"

\* C9: every authenticated POST to /tg_msg (/discord_msg) appends exactly
\* one entry, of platform telegram (discord) and with the body
\* format_message gives for the payload without shardSecret, and answers
\* queued; no request appends more than one entry or one of another platform.
C9_EnqueueContract ==
    /\ \A h \in Handlers :
          (pc[h] = "done" /\ Authorised(req[h])) =>
              /\ resp[h] = "queued"
              /\ origin[data[h].eid] = req[h]
              /\ Valid(qfile) => (data[h].eid \in Ids(qfile.list)) # (data[h].eid \in removed)
    /\ Valid(qfile) =>
          /\ \A i \in 1..Len(qfile.list) :
                LET e == qfile.list[i]
                    r == origin[e.eid]
                IN  r # NoReq =>
                      /\ e.platform = PlatformOf(r.endpoint)
                      /\ e.platform \in {"telegram", "discord"}
                      /\ e.body = format_message(PopShardSecret(Payload(r.payload)),
                                                 PlatformOf(r.endpoint))
          /\ \A i, j \in 1..Len(qfile.list) :
                qfile.list[i].eid = qfile.list[j].eid => i = j
          /\ \A e \in Enqueued : (e \in Ids(qfile.list)) # (e \in removed)

\* the case of C9: a /discord_msg request has been answered queued and its
\* entry is in the queue file
C9_Witness ==
    \E h \in Handlers :
        /\ pc[h] = "done"
        /\ resp[h] = "queued"
        /\ req[h].endpoint = "/discord_msg"
        /\ Valid(qfile)
        /\ \E i \in 1..Len(qfile.list) :
              /\ qfile.list[i].eid = data[h].eid
              /\ qfile.list[i].platform = "discord"

\* C10: for telegram every underscore of the output of format_message is
\* preceded by a backslash, whatever the type of the field values; for
\* discord nothing is escaped.
C10_UnderscoresEscaped ==
    phase = "fmt_out" =>
        IF fmtPlatform = "telegram"
        THEN \A i \in 1..Len(fmtOut) :
                fmtOut[i] = "_" => (i > 1 /\ fmtOut[i - 1] = "\\")
        ELSE \A i \in 1..Len(fmtOut) : fmtOut[i] # "\\"

(***************************************************************************)
(* The lines of a formatted message.                                       *)
(***************************************************************************)
\* the text split at its newlines (the inverse of "\n".join)
RECURSIVE SplitLines(_)
SplitLines(s) ==
    IF \A i \in 1..Len(s) : s[i] # "\n" THEN <<s>>
    ELSE LET k == CHOOSE i \in 1..Len(s) :
                     s[i] = "\n" /\ \A j \in 1..(i - 1) : s[j] # "\n"
         IN  <<SubSeq(s, 1, k - 1)>> \o SplitLines(SubSeq(s, k + 1, Len(s)))

StartsWith(s, pre) == Len(s) >= Len(pre) /\ SubSeq(s, 1, Len(pre)) = pre

EndsWith(s, suf) ==
    Len(s) >= Len(suf) /\ SubSeq(s, Len(s) - Len(suf) + 1, Len(s)) = suf

\* the event's text field is a non-empty list
HasEvents(body) ==
    "text" \in DOMAIN body /\ body["text"].t = "list" /\ body["text"].v # <<>>

\* C11: format_message emits the Events header, followed by one "- <line>"
\* per entry, if and only if the event's text is a non-empty list; otherwise
\* the output is exactly the four label lines.
C11_EventsIffNonEmpty ==
    phase = "fmt_out" =>
        LET ls == SplitLines(fmtOut)
            header == IF fmtPlatform = "discord"
                      THEN <<"*", "*", "E", "v", "e", "n", "t", "s", ":", "*", "*">>
                      ELSE <<"*", "E", "v", "e", "n", "t", "s", ":", "*">>
        IN  IF HasEvents(fmtBody)
            THEN /\ Len(ls) = 5 + Len(fmtBody["text"].v)
                 /\ ls[5] = header
                 /\ \A i \in 6..Len(ls) : StartsWith(ls[i], <<"-", " ">>)
            ELSE Len(ls) = 4

\* C12: the Timestamp line ends with N/A if and only if the event has no
\* timestamp field; for every timestamp of the event (non-negative integer
\* milliseconds) it ends with the UTC conversion YYYY-MM-DD HH:MM:SS UTC.
C12_TimestampRendered ==
    phase = "fmt_out" =>
        LET line == SplitLines(fmtOut)[4]
        IN  /\ EndsWith(line, <<"N", "/", "A">>) <=> "timestamp" \notin DOMAIN fmtBody
            /\ "timestamp" \in DOMAIN fmtBody =>
                  /\ EndsWith(line, FormatTimestamp(fmtBody["timestamp"].v))
                  /\ fmtBody["timestamp"].v = 0 =>
                        EndsWith(line, <<"1", "9", "7", "0", "-", "0", "1", "-", "0", "1",
                                         " ", "0", "0", ":", "0", "0", ":", "0", "0",
                                         " ", "U", "T", "C">>)

\* the label of a line as the platform marks it up: **Label** for discord,
\* *Label* for any other platform
Marked(label, platform) ==
    IF platform = "discord" THEN <<"*", "*">> \o label \o <<"*", "*">>
    ELSE <<"*">> \o label \o <<"*">>

\* the four lines in order, each label followed by a colon, blanks(i) blanks
\* and the value as escape_text returns it
LabelLines(ls, blanks) ==
    /\ Len(ls) >= 4
    /\ ls[1] = Marked(<<"S", "i", "t", "e">>, fmtPlatform) \o <<":">> \o blanks[1]
               \o escape_text(GetOrNA(fmtBody, "Site"), fmtPlatform)
    /\ ls[2] = Marked(<<"D", "e", "s", "c", "r", "i", "p", "t", "i", "o", "n">>, fmtPlatform)
               \o <<":">> \o blanks[2]
               \o escape_text(GetOrNA(fmtBody, "description"), fmtPlatform)
    /\ ls[3] = Marked(<<"C", "o", "n", "t", "r", "o", "l", "l", "e", "r">>, fmtPlatform)
               \o <<":">> \o blanks[3]
               \o escape_text(GetOrNA(fmtBody, "Controller"), fmtPlatform)
    /\ StartsWith(ls[4], Marked(<<"T", "i", "m", "e", "s", "t", "a", "m", "p">>, fmtPlatform)
                         \o <<":">> \o blanks[4])
    /\ Len(ls[4]) > Len(Marked(<<"T", "i", "m", "e", "s", "t", "a", "m", "p">>, fmtPlatform)) + 1 + Len(blanks[4])
    /\ ls[4][Len(Marked(<<"T", "i", "m", "e", "s", "t", "a", "m", "p">>, fmtPlatform)) + 2 + Len(blanks[4])] # " "

\* C13 as stated: the four lines in order, each label, colon, one space,
\* value.
C13_OneSpaceSeparator ==
    phase = "fmt_out" =>
        LabelLines(SplitLines(fmtOut), << <<" ">>, <<" ">>, <<" ">>, <<" ">> >>)

\* C13 amended: the four lines in order, each label, colon, the blanks that
\* align the values in one column (eight after Site, one after Description,
\* two after Controller, three after Timestamp), value.
C13_AlignedSeparator ==
    phase = "fmt_out" =>
        LabelLines(SplitLines(fmtOut),
                   << <<" ", " ", " ", " ", " ", " ", " ", " ">>, <<" ">>,
                      <<" ", " ">>, <<" ", " ", " ">> >>)

\* the case of C13: a telegram event with its Site, description and
\* Controller given as strings
C13_Witness ==
    /\ phase = "fmt_out"
    /\ fmtPlatform = "telegram"
    /\ "Site" \in DOMAIN fmtBody /\ fmtBody["Site"] = JStr(<<"a">>)
    /\ "description" \in DOMAIN fmtBody /\ fmtBody["description"].t = "str"
    /\ "Controller" \in DOMAIN fmtBody /\ fmtBody["Controller"] = JStr(<<"a">>)
    /\ StartsWith(fmtOut, <<"*", "S", "i", "t", "e", "*", ":", " ", " ">>)

(***************************************************************************)
(* The worker under failures.                                              *)
(***************************************************************************)
\* the worker's positions inside json.load of a file operation
LoadPcs == {"snap_read", "save_read", "rm_read"}

\* C14: a persistence failure of the worker (the snapshot read,
\* remove_from_queue or the sent-log append raising on the file) does not
\* stop process_queue: no such step ends the worker thread.
C14_WorkerSurvivesPersistenceFailure ==
    [][pc[Worker] \in LoadPcs => pc'[Worker] # "dead"]_vars

\* C18: a failing send_email_alert never stops the worker: from the alert
\* the worker goes to the send_retry_wait sleep, and the alert step leaves
\* the queue file and the sent log as they are.
C18_AlertFailureSwallowed ==
    [][pc[Worker] = "alert" =>
          /\ pc'[Worker] \in {"alert", "alert_sleep"}
          /\ pc'[Worker] = "alert_sleep" => qfile' = qfile /\ sfile' = sfile]_vars

(***************************************************************************)
(* The worker and concurrent enqueues.                                     *)
(***************************************************************************)
\* the enqueues e and d were made by requests to the same endpoint with the
\* same payload: their entries are equal as the program compares them
SameOrigin(e, d) ==
    /\ origin[e] # NoReq
    /\ origin[e].endpoint = origin[d].endpoint
    /\ origin[e].payload = origin[d].payload

\* C15: whenever the queue file is at rest, every enqueued message is in it
\* unless a message equal to it was delivered: a removal never drops an
\* entry that differs from the delivered message, whether it was appended
\* before, during or after the send.
C15_NoLostUpdate ==
    Valid(qfile) =>
        \A e \in Enqueued :
            \/ e \in Ids(qfile.list)
            \/ \E d \in delivered : d = e \/ SameOrigin(e, d)

\* the case of C15: the worker has removed a delivered message, and the
\* queue file holds an entry appended since the snapshot was taken
C15_Witness ==
    /\ pc[Worker] = "save_lock"
    /\ ok
    /\ Valid(qfile)
    /\ \E e \in Ids(qfile.list) : e \notin Ids(snapshot) /\ e \in Enqueued

\* C16: within a pass the worker takes the messages one at a time in the
\* order of the snapshot: it moves from position i to i + 1 only, and only
\* when the message at i is finished (delivered, or out of attempts and
\* alerted); every attempt and alert is for the message at the current
\* position; and the snapshot is the queue file as read at the start of the
\* pass, unchanged until the pass ends, so a message enqueued later is not
\* attempted in that pass.
C16_SequentialInOrder ==
    /\ [](pc[Worker] \in {"send", "retry_sleep", "alert", "alert_sleep"} =>
             idx \in 1..Len(snapshot))
    /\ [][/\ idx' # idx =>
                \/ idx' = 0
                \/ /\ idx' = idx + 1
                   /\ pc[Worker] = "for_next"
                   /\ idx >= 1 => ok \/ (attempts = send_retry_num /\ alerts = 1)
          /\ snapshot' # snapshot =>
                \/ snapshot' = <<>>
                \/ pc[Worker] = "snap_read" /\ snapshot' = qfile.list
          /\ attempts' > attempts => pc[Worker] = "send" /\ idx' = idx
          /\ alerts' > alerts => pc[Worker] = "alert" /\ attempts = send_retry_num
          /\ delivered' # delivered => delivered' = delivered \cup {snapshot[idx].eid}
         ]_vars

\* the case of C16: the worker attempts the second message of its snapshot
\* while the queue file holds a message enqueued since the snapshot
C16_Witness ==
    /\ pc[Worker] = "send"
    /\ idx = 2
    /\ Valid(qfile)
    /\ \E e \in Ids(qfile.list) : e \notin Ids(snapshot) /\ e \in Enqueued

(***************************************************************************)
(* Liveness of the worker.                                                 *)
(***************************************************************************)
\* the enqueue ordinals the model can issue
Ordinals == 1..(MaxRequests + 1)

\* send_message is being called for the entry of enqueue e
Attempting(e) ==
    pc[Worker] = "send" /\ idx \in 1..Len(snapshot) /\ snapshot[idx].eid = e

\* C17: under fair scheduling, with senders and an alerter that always
\* return, every pass ends and another begins; every message whose enqueue
\* has completed and that is not delivered yet is eventually attempted by
\* send_message; and every message the sender succeeded for is eventually
\* out of the queue file and in the sent log.
C17_EventuallyAttempted ==
    /\ []<>(pc[Worker] = "snap_read")
    /\ \A e \in Ordinals :
          (e \in Enqueued /\ e \notin delivered) ~> (Attempting(e) \/ e \in delivered)
    /\ \A e \in Ordinals :
          (e \in delivered) ~>
              (Valid(qfile) /\ e \notin Ids(qfile.list) /\ e \in Ids(sfile.list))

(***************************************************************************)
(* The two files.                                                          *)
(***************************************************************************)
IsPrefix(a, b) == Len(a) <= Len(b) /\ SubSeq(b, 1, Len(a)) = a

\* C19: the sent log only grows at its end, and only by the worker: each
\* step that changes it appends the message the worker is working on, after
\* send_message returned True for it in this pass and after it was removed
\* from the queue file; the log never holds more entries than there were
\* successful sends.
C19_SentLogAppendOnly ==
    /\ [](Valid(sfile) /\ Len(sfile.list) <= Cardinality(delivered))
    /\ [][/\ IsPrefix(sfile.list, sfile'.list)
          /\ sfile' # sfile =>
                /\ pc[Worker] = "save_write"
                /\ pc'[Worker] = "for_next"
                /\ \A h \in Handlers : pc'[h] = pc[h]
                /\ ok
                /\ snapshot[idx].eid \in delivered
                /\ sfile'.list = Append(sfile.list, snapshot[idx])
                /\ Valid(qfile)
                /\ snapshot[idx].eid \notin Ids(qfile.list)
         ]_vars

\* the case of C19: the second delivered message has been appended to the
\* sent log
C19_Witness ==
    /\ pc[Worker] = "for_next"
    /\ ok
    /\ Len(sfile.list) = 2
    /\ sfile.list[2] = snapshot[idx]

\* the positions at which a thread has the queue file open and loads it
QueueLoaders ==
    {t \in Threads : \/ pc[t] \in {"snap_read", "rm_read"}
                     \/ pc[t] = "save_read" /\ t # Worker}

====
